---- MODULE Spec2Model ----
(***************************************************************************)
(* tiny-reporter (trep): a model of `run` (src/src/main.rs), of the        *)
(* Process Runner `run_shell_command`, of the Instance Lock                *)
(* `acquire_lock` and of the Record Sink `write_csv_record` /              *)
(* `write_jsonl_record`.  Two instances of the program are started with    *)
(* the same job name and the same home directory, so they share the job    *)
(* directory, the lock file and the data files.                            *)
(***************************************************************************)
EXTENDS Integers, Sequences, FiniteSets, TLC

(* ---------------------------------------------------------------- bounds *)
\* Ticks the instances may start, all together (the loop itself is unbounded).
MaxTicks == 2
\* Calendar dates 1..MaxDate; the clock may pass MaxDate - 1 midnights.
MaxDate == 2

\* The instances started with the same job name, numbered in the order in
\* which they are started.
Inst == {1, 2}
Dates == 1..MaxDate
Ticks == 1..MaxTicks

(* ------------------------------------------------------------- constants *)
\* Duration::from_millis(100): the longest single sleep of the inter-tick wait.
SleepChunkMs == 100
\* exit code recorded for a Runner failure, and for a child killed by a signal
FailCode == -1

None == "none"
NoHolder == 0

(* ---------------------------------------------------- command-line inputs *)
\* the command lines tried: --every / --timeout (None: option not given) and
\* --format.  Each accepted value of an option meets each accepted value of
\* every other option; each rejected value comes with accepted other values.
CommandLines ==
    { [every |-> None,    timeout |-> None,    format |-> "csv"],
      [every |-> "150ms", timeout |-> "1s",    format |-> "csv"],
      [every |-> "150ms", timeout |-> None,    format |-> "JSONL"],
      [every |-> None,    timeout |-> "1s",    format |-> "JSONL"],
      [every |-> "soon",  timeout |-> None,    format |-> "csv"],
      [every |-> "150ms", timeout |-> "later", format |-> "csv"],
      [every |-> None,    timeout |-> "1s",    format |-> "xml"] }

\* humantime::parse_duration on the strings above: milliseconds, or a parse error
parse_duration_str(s) ==
    CASE s = "150ms" -> [ok |-> TRUE, ms |-> 150]
      [] s = "1s" -> [ok |-> TRUE, ms |-> 1000]
      [] OTHER -> [ok |-> FALSE, ms |-> 0]

\* str::to_lowercase on the format names above
to_lowercase(s) ==
    CASE s = "JSONL" -> "jsonl"
      [] OTHER -> s

\* the extension of the data file: "csv" for csv, "jsonl" for everything else
Ext(fmt) == IF fmt = "csv" THEN "csv" ELSE "jsonl"

\* <YYYY-MM-DD>.<csv|jsonl> inside the job's data directory
record_file_path(date, fmt) == <<date, Ext(fmt)>>

FileNames == Dates \X {"csv", "jsonl"}

(* --------------------------------------------------------------- strings *)
\* what a child may print: characters, with " " and "\n" the whitespace
IsSpace(c) == c \in {" ", "\n"}

RECURSIVE TrimStart(_)
TrimStart(s) ==
    IF s = <<>> THEN <<>>
    ELSE IF IsSpace(Head(s)) THEN TrimStart(Tail(s)) ELSE s

RECURSIVE TrimEnd(_)
TrimEnd(s) ==
    IF s = <<>> THEN <<>>
    ELSE IF IsSpace(s[Len(s)]) THEN TrimEnd(SubSeq(s, 1, Len(s) - 1)) ELSE s

\* str::trim
Trim(s) == TrimEnd(TrimStart(s))

DigitChar(d) == <<"0", "1", "2", "3", "4", "5", "6", "7", "8", "9">>[d + 1]

RECURSIVE Digits(_)
Digits(n) ==
    IF n < 10 THEN <<DigitChar(n)>> ELSE Digits(n \div 10) \o <<DigitChar(n % 10)>>

\* i32::to_string: an optional sign and the decimal digits
IntToString(n) == IF n < 0 THEN <<"-">> \o Digits(0 - n) ELSE Digits(n)

(* ------------------------------------------------- outcomes of one child *)
\* how the shell child may end: exit(code) with what it printed, or death by
\* a signal (ExitStatus::code() is then None)
ChildEnds ==
    { [code |-> 0, signalled |-> FALSE, out |-> <<"h", "i", "\n">>],
      [code |-> 1, signalled |-> FALSE, out |-> <<" ", "\n">>],
      [code |-> 0, signalled |-> TRUE, out |-> <<>>] }

Killed == [code |-> 0, signalled |-> TRUE, out |-> <<>>]

\* (mutant) unwrap_or(0), or unwrap_or_default()
ExitCodeZeroOnSignal(end) == IF end.signalled THEN 0 ELSE end.code

\* output.status.code().unwrap_or(-1)
ExitCodeOf(end) == IF end.signalled THEN FailCode ELSE end.code

\* io::Result<(String, i32)>
OkResult(out, code) == [ok |-> TRUE, out |-> out, code |-> code]
ErrResult(e) == [ok |-> FALSE, out |-> <<e>>, code |-> 0]
NoResult == [ok |-> FALSE, out |-> <<>>, code |-> 0]

ErrSpawn == "No such file or directory"
ErrWait == "wait error"
ErrTimeout == "command timed out after 1s"
ErrExec == "command execution error"
RunnerErrors == {ErrSpawn, ErrWait, ErrTimeout, ErrExec}

\* format!("error: {}", e)
ErrorMsg(res) == <<"error: ">> \o res.out

(* ----------------------------------------------------------------- state *)
VARIABLES
    today,          \* the calendar date Local::now() reports
    dir_exists,     \* ~/.tiny-reporter/<name> exists
    lock_exists,    \* <name>.lock exists
    lock_holder,    \* the instance whose open file holds the exclusive lock
    files,          \* files[<<date, ext>>]: the data file of a date, if it exists, and its lines
    proc,           \* proc[i]: the process of instance i (fields below)
    log             \* history: the appends, in the order they happened

vars == <<today, dir_exists, lock_exists, lock_holder, files, proc, log>>

\* a data file: whether it exists, and its lines
NoFile == [exists |-> FALSE, lines |-> <<>>]

\* Option<Duration>
NoDuration == [some |-> FALSE, ms |-> 0]
SomeDuration(ms) == [some |-> TRUE, ms |-> ms]

NoOpts == [every |-> None, format |-> "csv", timeout |-> None]
EmptyChan == [msg |-> "empty", res |-> NoResult]

\* the memory of a process that has not started, and all that is left of one
\* that has exited (its threads are gone with it, its children are no longer
\* its own)
BlankProc ==
    [ pc |-> "new",                  \* where the process is in main / run
      opts |-> NoOpts,               \* RunOpts {every, format, timeout}
      running |-> TRUE,              \* the AtomicBool the Ctrl-C handler clears
      current_date |-> 1,            \* the stored rotation date
      ticks |-> 0,                   \* ticks started so far
      tick_no |-> 1,                 \* the number, among all ticks, of the tick in progress
      file_path |-> <<1, "csv">>,    \* the data file of the tick in progress
      timestamp |-> 1,               \* Local::now() taken at the start of the tick
      result |-> NoResult,           \* what run_shell_command returned
      file_exists |-> FALSE,         \* path.exists() read by write_csv_record
      elapsed |-> 0,                 \* milliseconds of the inter-tick sleep so far
      sleep_dur |-> 0,               \* the length asked of the thread::sleep in progress
      child |-> [k \in Ticks |-> "none"],    \* the shell child of tick k: running, exited, killed, reaped
      waiter |-> [k \in Ticks |-> "none"],   \* the thread that waits on that child
      pipe_open |-> [k \in Ticks |-> FALSE], \* a write end of that child's stdout/stderr pipes is open
      chan |-> EmptyChan,            \* the mpsc channel of the call in progress
      kill_sent |-> None,            \* what `kill -9 <pid>` of the call in progress did
      exit_code |-> 0,               \* the exit status, once the process has exited
      failure |-> None,              \* why run returned Err
      stop_at |-> 0 ]                \* (history) the ticks started when the handler ran

Init ==
    /\ today = 1
    /\ dir_exists = FALSE
    /\ lock_exists = FALSE
    /\ lock_holder = NoHolder
    /\ files = [f \in FileNames |-> NoFile]
    /\ proc = [i \in Inst |-> BlankProc]
    /\ log = <<>>

(* ------------------------------------------------------------ environment *)
\* the calendar date changes (midnight passes)
Midnight ==
    /\ today < MaxDate
    /\ today' = today + 1
    /\ UNCHANGED <<dir_exists, lock_exists, lock_holder, files, proc, log>>

(* ------------------------------------------------------------ main / run *)
\* instance i goes on as process state q
Step(i, q) == proc' = [proc EXCEPT ![i] = q]

\* (mutant) the lock outlives a process that exits with an error
LockKeptOnError(holder, i, status) ==
    IF holder = i /\ status = 0 THEN NoHolder ELSE holder

\* the file lock after the process of instance i has gone: the operating
\* system closes the lock file, whatever the exit status, and an flock dies
\* with its last open descriptor
LockAfterExit(holder, i, status) == IF holder = i THEN NoHolder ELSE holder

\* main: run returned Ok (status 0), or Err and std::process::exit(1)
Exit(i, status, why) ==
    /\ Step(i, [BlankProc EXCEPT !.pc = "exited", !.exit_code = status,
                                 !.failure = why, !.ticks = proc[i].ticks])
    /\ lock_holder' = LockAfterExit(lock_holder, i, status)

interval_of(o) ==
    IF o.every = None THEN NoDuration ELSE SomeDuration(parse_duration_str(o.every).ms)
timeout_of(o) ==
    IF o.timeout = None THEN NoDuration ELSE SomeDuration(parse_duration_str(o.timeout).ms)
fmt_of(o) == to_lowercase(o.format)

\* (mutant) the format is not validated before the loop
ConfigErrorDurationsOnly(o) ==
    IF o.every # None /\ ~parse_duration_str(o.every).ok THEN "invalid interval"
    ELSE IF o.timeout # None /\ ~parse_duration_str(o.timeout).ok THEN "invalid timeout"
    ELSE None

\* the three checks at the top of run, in the order of the code; None when
\* the configuration is accepted
ConfigError(o) ==
    IF o.every # None /\ ~parse_duration_str(o.every).ok THEN "invalid interval"
    ELSE IF o.timeout # None /\ ~parse_duration_str(o.timeout).ok THEN "invalid timeout"
    ELSE IF fmt_of(o) # "csv" /\ fmt_of(o) # "jsonl" THEN "format must be 'csv' or 'jsonl'"
    ELSE None

\* the operator starts an instance, `trep run --as <name> ...`: main, and run
\* up to the format check
Start(i) ==
    /\ proc[i].pc = "new"
    /\ \A j \in Inst : j < i => proc[j].pc # "new"
    /\ \E o \in CommandLines :
          IF ConfigError(o) # None
          THEN Exit(i, 1, ConfigError(o))
          ELSE /\ Step(i, [proc[i] EXCEPT !.pc = "ensure_dir", !.opts = o])
               /\ UNCHANGED lock_holder
    /\ UNCHANGED <<today, dir_exists, lock_exists, files, log>>

\* ensure_data_dir: fs::create_dir_all, which may fail
EnsureDataDir(i) ==
    /\ proc[i].pc = "ensure_dir"
    /\ \/ /\ dir_exists' = TRUE
          /\ Step(i, [proc[i] EXCEPT !.pc = "lock"])
          /\ UNCHANGED lock_holder
       \/ /\ ~dir_exists
          /\ Exit(i, 1, "create_dir_all")
          /\ UNCHANGED dir_exists
    /\ UNCHANGED <<today, lock_exists, files, log>>

\* (mutant) a lock call that always succeeds
try_lock_shared(holder) == TRUE

\* fs2 try_lock_exclusive: flock(LOCK_EX | LOCK_NB) succeeds exactly when no
\* other open file holds the lock, and returns at once either way
try_lock_exclusive(holder) == holder = NoHolder

\* (mutant) `let _ = ...`: the locked file is dropped, and the lock with it
Drop_lock_file(i) == NoHolder

\* `let _lock_file = ...`: the binding keeps the locked file open until run returns
Bind_lock_file(i) == i

\* acquire_lock (open, creating, the lock file, then try the lock), then
\* ctrlc::set_handler
AcquireLock(i) ==
    /\ proc[i].pc = "lock"
    /\ lock_exists' = TRUE
    /\ IF try_lock_exclusive(lock_holder)
       THEN /\ lock_holder' = Bind_lock_file(i)
            /\ Step(i, [proc[i] EXCEPT !.pc = "enter"])
       ELSE Exit(i, 1, "failed to acquire lock")
    /\ UNCHANGED <<today, dir_exists, files, log>>

\* the initial rotation date: `let mut current_date = Local::now().date_naive()`
EnterLoop(i) ==
    /\ proc[i].pc = "enter"
    /\ Step(i, [proc[i] EXCEPT !.pc = "tick", !.current_date = today])
    /\ UNCHANGED <<today, dir_exists, lock_exists, lock_holder, files, log>>

\* where a process is once it holds the lock and the handler is set: about
\* to enter the scheduler loop, or inside it
LoopPcs == {"enter", "tick", "recv", "kill", "write", "w_open", "w_rec", "after",
            "sleep", "sleeping", "rotate"}

\* (mutant) a handler that also kills the command in progress
CtrlCKillsChild(i) ==
    /\ proc[i].pc \in LoopPcs
    /\ proc[i].running
    /\ Step(i, [proc[i] EXCEPT !.running = FALSE, !.stop_at = proc[i].ticks,
                               !.child[proc[i].tick_no] =
                                   IF @ = "running" THEN "killed" ELSE @])
    /\ UNCHANGED <<today, dir_exists, lock_exists, lock_holder, files, log>>

\* the Ctrl-C handler: running.store(false)
CtrlC(i) ==
    /\ proc[i].pc \in LoopPcs
    /\ proc[i].running
    /\ Step(i, [proc[i] EXCEPT !.running = FALSE, !.stop_at = proc[i].ticks])
    /\ UNCHANGED <<today, dir_exists, lock_exists, lock_holder, files, log>>

(* ------------------------------------------------------ run_shell_command *)
RECURSIVE SumTicks(_)
SumTicks(S) ==
    IF S = {} THEN 0
    ELSE LET i == CHOOSE j \in S : TRUE IN proc[i].ticks + SumTicks(S \ {i})

\* the ticks started so far, by all instances
TicksStarted == SumTicks(Inst)

\* the top of the loop: the path of the data file from the stored rotation
\* date, the timestamp, then run_shell_command up to thread::spawn.
\* Command::spawn either fails (`?`: the call returns Err) or creates the one
\* child of this call, which the waiter thread takes with it.
TickStart(i) ==
    LET p == proc[i]
        k == TicksStarted + 1
        q == [p EXCEPT !.ticks = @ + 1,
                       !.tick_no = k,
                       !.file_path = record_file_path(p.current_date, fmt_of(p.opts)),
                       !.timestamp = today,
                       !.chan = EmptyChan,
                       !.kill_sent = None]
    IN  /\ p.pc = "tick"
        /\ TicksStarted < MaxTicks
        /\ \/ Step(i, [q EXCEPT !.child[k] = "running",
                                !.waiter[k] = "waiting",
                                !.pipe_open[k] = TRUE,
                                !.pc = "recv"])
           \/ Step(i, [q EXCEPT !.result = ErrResult(ErrSpawn), !.pc = "write"])
        /\ UNCHANGED <<today, dir_exists, lock_exists, lock_holder, files, log>>

\* the pipes of a child that ends (Stdio::piped()): its own write ends close
\* with it, those its descendants inherited stay open while they live
PipeAfterEnd == {FALSE, TRUE}

\* the shell child ends: it exits, or a signal from outside kills it
ChildExit(i, k) ==
    /\ proc[i].child[k] = "running"
    /\ \E open \in (IF proc[i].waiter[k] = "waiting" THEN PipeAfterEnd ELSE {FALSE}) :
          Step(i, [proc[i] EXCEPT !.child[k] = "exited", !.pipe_open[k] = open])
    /\ UNCHANGED <<today, dir_exists, lock_exists, lock_holder, files, log>>

\* the last descendant of a child that has ended closes the pipes
PipesClose(i, k) ==
    /\ proc[i].child[k] \in {"exited", "killed"}
    /\ proc[i].pipe_open[k]
    /\ Step(i, [proc[i] EXCEPT !.pipe_open[k] = FALSE])
    /\ UNCHANGED <<today, dir_exists, lock_exists, lock_holder, files, log>>

\* (mutant) one channel for all the calls
RxAliveAnyCall(p, k) == p.pc \in {"recv", "kill"}

\* the receiver of the channel of call k still exists: rx lives until
\* run_shell_command returns
RxAlive(p, k) == k = p.tick_no /\ p.pc \in {"recv", "kill"}

\* tx.send(m): queued if the receiver exists, dropped (`let _ =`) otherwise
Send(p, k, m) ==
    IF RxAlive(p, k) THEN [p EXCEPT !.chan = [msg |-> "full", res |-> m]] ELSE p

\* dropping tx without a send disconnects the channel
Disconnect(p, k) ==
    IF RxAlive(p, k) THEN [p EXCEPT !.chan = [msg |-> "closed", res |-> NoResult]] ELSE p

\* what the waiter thread sends for a child that ended
WaiterMessage(end) == OkResult(Trim(end.out), ExitCodeOf(end))

\* how a child that has ended may have ended, which wait_with_output is the
\* first to see: our SIGKILL killed it, or it ended by itself
EndsOf(c) == IF c = "killed" THEN {Killed} ELSE ChildEnds

\* (mutant) a waiter that gives up when its call has returned
WaiterDoneIfAwaited(i, k) ==
    LET p == proc[i] IN
    /\ p.waiter[k] = "waiting"
    /\ p.child[k] \in {"exited", "killed"}
    /\ ~p.pipe_open[k]
    /\ RxAlive(p, k)
    /\ \E e \in EndsOf(p.child[k]) :
          Step(i, Send([p EXCEPT !.child[k] = "reaped", !.waiter[k] = "done"],
                       k, WaiterMessage(e)))
    /\ UNCHANGED <<today, dir_exists, lock_exists, lock_holder, files, log>>

\* the waiter thread: child.wait_with_output() reads both pipes to their end,
\* then waits on the child (and reaps it), and the thread sends the trimmed
\* stdout and the code
WaiterDone(i, k) ==
    LET p == proc[i] IN
    /\ p.waiter[k] = "waiting"
    /\ p.child[k] \in {"exited", "killed"}
    /\ ~p.pipe_open[k]
    /\ \E e \in EndsOf(p.child[k]) :
          Step(i, Send([p EXCEPT !.child[k] = "reaped", !.waiter[k] = "done"],
                       k, WaiterMessage(e)))
    /\ UNCHANGED <<today, dir_exists, lock_exists, lock_holder, files, log>>

\* the waiter thread fails: wait() returns an error, which it sends, or
\* reading the pipes fails and the thread panics (read2(..).unwrap()), which
\* drops tx without a message; either way the read ends of the pipes are
\* dropped with the Child
WaiterFail(i, k) ==
    LET p == proc[i]
        q == [p EXCEPT !.waiter[k] = "done", !.pipe_open[k] = FALSE]
    IN  /\ p.waiter[k] = "waiting"
        /\ \/ Step(i, Send(q, k, ErrResult(ErrWait)))
           \/ Step(i, Disconnect(q, k))
        /\ UNCHANGED <<today, dir_exists, lock_exists, lock_holder, files, log>>

\* rx.recv() / rx.recv_timeout(to) returns the message, or Err on a
\* disconnected channel
Recv(i) ==
    LET p == proc[i] IN
    /\ p.pc = "recv"
    /\ p.chan.msg # "empty"
    /\ Step(i, [p EXCEPT !.result = IF p.chan.msg = "full" THEN p.chan.res
                                    ELSE ErrResult(ErrExec),
                         !.chan = EmptyChan,
                         !.pc = "write"])
    /\ UNCHANGED <<today, dir_exists, lock_exists, lock_holder, files, log>>

\* rx.recv_timeout(to) returns Timeout: the deadline passed with no message
RecvTimeout(i) ==
    LET p == proc[i] IN
    /\ p.pc = "recv"
    /\ timeout_of(p.opts).some
    /\ p.chan.msg = "empty"
    /\ Step(i, [p EXCEPT !.pc = "kill"])
    /\ UNCHANGED <<today, dir_exists, lock_exists, lock_holder, files, log>>

\* (mutant) a signal that does not terminate
KillNoEffect(c) == c

\* SIGKILL arriving at the process with the child's pid
KillEffect(c) == IF c = "running" THEN "killed" ELSE c

\* what a `kill -9 <pid>` that ran found under the pid
KillFound(c) ==
    CASE c = "running" -> "killed"
      [] c \in {"exited", "killed"} -> "already_dead"
      [] OTHER -> "reaped_pid"

\* the Timeout arm: `let _ = Command::new("kill").args(["-9", pid]).status()`,
\* whose failure to run is ignored, and the TimedOut error
Kill(i) ==
    LET p == proc[i]
        k == p.tick_no
        q == [p EXCEPT !.result = ErrResult(ErrTimeout), !.chan = EmptyChan,
                       !.pc = "write"]
    IN  /\ p.pc = "kill"
        /\ \/ \E open \in (IF p.child[k] = "running" /\ p.waiter[k] = "waiting"
                            THEN PipeAfterEnd ELSE {p.pipe_open[k]}) :
                 Step(i, [q EXCEPT !.child[k] = KillEffect(@),
                                   !.pipe_open[k] = open,
                                   !.kill_sent = KillFound(p.child[k])])
           \/ Step(i, [q EXCEPT !.kill_sent = "not_run"])
        /\ UNCHANGED <<today, dir_exists, lock_exists, lock_holder, files, log>>

(* ------------------------------------------------------------ Record Sink *)
\* (mutant) a Runner failure recorded with the code of the result
OutcomeWithoutFailCode(res) ==
    IF res.ok THEN [value |-> res.out, code |-> res.code]
    ELSE [value |-> ErrorMsg(res), code |-> res.code]

\* the Invocation Outcome of a tick: stdout and exit code of a command that
\* ran, "error: <e>" and -1 for a Runner failure
OutcomeOf(res) ==
    IF res.ok THEN [value |-> res.out, code |-> res.code]
    ELSE [value |-> ErrorMsg(res), code |-> FailCode]

\* one CSV record: timestamp, value, exit_code.to_string()
CsvRow(ts, value, code) ==
    [kind |-> "row", ts |-> ts, value |-> value, code |-> IntToString(code)]

\* csv::Writer::write_record on a new writer: the fields as one record.  A
\* header row is something only Writer::serialize emits (from the field names
\* of a struct); has_headers changes nothing for write_record, and the code
\* passes no field names from which a header could be made.
csv_write_record(has_headers, ts, value, code) == <<CsvRow(ts, value, code)>>

\* serde_json::to_string(&JsonRecord {timestamp, value, exit_code}) and writeln!
json_writeln(ts, value, code) ==
    <<[kind |-> "json", ts |-> ts, value |-> value, code |-> IntToString(code)]>>

\* the lines one write_*_record call appends
LinesWritten(fmt, has_headers, ts, o) ==
    IF fmt = "csv" THEN csv_write_record(has_headers, ts, o.value, o.code)
    ELSE json_writeln(ts, o.value, o.code)

\* write_csv_record: `let file_exists = path.exists()`; write_jsonl_record
\* has no such step
WriteBegin(i) ==
    LET p == proc[i] IN
    /\ p.pc = "write"
    /\ Step(i, [p EXCEPT !.file_exists = IF fmt_of(p.opts) = "csv"
                                         THEN files[p.file_path].exists ELSE @,
                         !.pc = "w_open"])
    /\ UNCHANGED <<today, dir_exists, lock_exists, lock_holder, files, log>>

\* (mutant) the write error of the record of a Runner failure is dropped
WriteErrorLeavesIfOk(res) == res.ok

\* `?` on a write of the record of a tick: the error leaves run, for the
\* record of a command that ran and for the record of a Runner failure alike
WriteErrorLeaves(res) == TRUE

\* a failed step of write_*_record: run returns Err, or (never, in this code)
\* the loop goes on without the record
WriteFailed(i, why) ==
    IF WriteErrorLeaves(proc[i].result)
    THEN Exit(i, 1, why)
    ELSE /\ Step(i, [proc[i] EXCEPT !.pc = "after"])
         /\ UNCHANGED lock_holder

\* OpenOptions::new().create(true).append(true).open(path)
WriteOpen(i) ==
    LET p == proc[i] IN
    /\ p.pc = "w_open"
    /\ \/ /\ files' = [files EXCEPT ![p.file_path].exists = TRUE]
          /\ Step(i, [p EXCEPT !.pc = "w_rec"])
          /\ UNCHANGED lock_holder
       \/ /\ WriteFailed(i, "open")
          /\ UNCHANGED files
    /\ UNCHANGED <<today, dir_exists, lock_exists, log>>

\* wtr.write_record(..) and wtr.flush(), or writeln!(file, ..)
WriteRecord(i) ==
    LET p == proc[i] IN
    /\ p.pc = "w_rec"
    /\ \/ /\ files' = [files EXCEPT ![p.file_path].lines =
                 @ \o LinesWritten(fmt_of(p.opts), ~p.file_exists, p.timestamp,
                                   OutcomeOf(p.result))]
          /\ log' = Append(log, [inst |-> i, tick |-> p.tick_no, file |-> p.file_path,
                                 pos |-> Len(files'[p.file_path].lines)])
          /\ Step(i, [p EXCEPT !.pc = "after"])
          /\ UNCHANGED lock_holder
       \/ /\ WriteFailed(i, "write")
          /\ UNCHANGED <<files, log>>
    /\ UNCHANGED <<today, dir_exists, lock_exists>>

(* ------------------------------------------------------- the rest of a tick *)
\* (mutant) only the shutdown flag ends the loop
LoopBreaksOnFlag(interval, isRunning) == ~isRunning

\* after the record: "break" when no interval is configured, else when the
\* shutdown flag is set; otherwise the inter-tick sleep
LoopBreaks(interval, isRunning) == ~interval.some \/ ~isRunning

\* the locals of the loop body are gone once the record is written
EndOfTick(p) ==
    [p EXCEPT !.file_path = BlankProc.file_path, !.timestamp = BlankProc.timestamp,
              !.result = NoResult, !.file_exists = FALSE, !.kill_sent = None]

\* (mutant) a tick whose command failed ends the loop
AfterTickStopsOnFailure(i) ==
    LET p == proc[i] IN
    /\ p.pc = "after"
    /\ IF LoopBreaks(interval_of(p.opts), p.running)
       THEN Exit(i, 0, None)
       ELSE IF ~p.result.ok
       THEN Exit(i, 1, "command failed")
       ELSE /\ Step(i, [EndOfTick(p) EXCEPT !.pc = "sleep", !.elapsed = 0])
            /\ UNCHANGED lock_holder
    /\ UNCHANGED <<today, dir_exists, lock_exists, files, log>>

\* the two checks after the record, then the start of the inter-tick sleep
AfterTick(i) ==
    LET p == proc[i] IN
    /\ p.pc = "after"
    /\ IF LoopBreaks(interval_of(p.opts), p.running)
       THEN Exit(i, 0, None)
       ELSE /\ Step(i, [EndOfTick(p) EXCEPT !.pc = "sleep", !.elapsed = 0])
            /\ UNCHANGED lock_holder
    /\ UNCHANGED <<today, dir_exists, lock_exists, files, log>>

\* (mutant) one sleep for all that remains of the interval
SleepDurWhole(remaining) == remaining

\* the length of the next sleep: 100 ms, or what remains of the interval
SleepDur(remaining) == IF remaining > SleepChunkMs THEN SleepChunkMs ELSE remaining

\* one turn of `while running.load()`: leave when the flag is cleared or the
\* interval has elapsed, else ask for a sleep of sleep_dur
Sleep(i) ==
    LET p == proc[i]
        dur == interval_of(p.opts).ms
    IN  /\ p.pc = "sleep"
        /\ IF ~p.running \/ p.elapsed >= dur
           THEN Step(i, [p EXCEPT !.pc = "rotate", !.elapsed = 0])
           ELSE Step(i, [p EXCEPT !.pc = "sleeping",
                                  !.sleep_dur = SleepDur(dur - p.elapsed)])
        /\ UNCHANGED <<today, dir_exists, lock_exists, lock_holder, files, log>>

\* thread::sleep(sleep_dur) returns: it lasts sleep_dur or longer (elapsed is
\* kept up to the interval, which is all the loop reads)
ThreadSleep(i) ==
    LET p == proc[i]
        dur == interval_of(p.opts).ms
    IN  /\ p.pc = "sleeping"
        /\ \E d \in {p.sleep_dur, dur - p.elapsed} :
              Step(i, [p EXCEPT !.elapsed = @ + d, !.sleep_dur = 0, !.pc = "sleep"])
        /\ UNCHANGED <<today, dir_exists, lock_exists, lock_holder, files, log>>

\* (mutant) the rotation date is never updated
NotRotated(cur, now) == cur

\* `if now_date != current_date { current_date = now_date }`
Rotated(cur, now) == IF now # cur THEN now ELSE cur

\* (mutant) no check of the shutdown flag after the sleep
RotateWithoutCheck(i) ==
    LET p == proc[i] IN
    /\ p.pc = "rotate"
    /\ Step(i, [p EXCEPT !.current_date = Rotated(@, today), !.pc = "tick"])
    /\ UNCHANGED <<today, dir_exists, lock_exists, lock_holder, files, log>>

\* after the sleep: the rotation date is re-derived, and the shutdown flag
\* checked once more before the next tick
Rotate(i) ==
    LET p == proc[i] IN
    /\ p.pc = "rotate"
    /\ IF ~p.running
       THEN Exit(i, 0, None)
       ELSE /\ Step(i, [p EXCEPT !.current_date = Rotated(@, today), !.pc = "tick"])
            /\ UNCHANGED lock_holder
    /\ UNCHANGED <<today, dir_exists, lock_exists, files, log>>

(* ---------------------------------------------------------- specification *)
Next ==
    \/ Midnight
    \/ \E i \in Inst :
          \/ Start(i)
          \/ EnsureDataDir(i)
          \/ AcquireLock(i)
          \/ EnterLoop(i)
          \/ CtrlC(i)
          \/ TickStart(i)
          \/ Recv(i)
          \/ RecvTimeout(i)
          \/ Kill(i)
          \/ WriteBegin(i)
          \/ WriteOpen(i)
          \/ WriteRecord(i)
          \/ AfterTick(i)
          \/ Sleep(i)
          \/ ThreadSleep(i)
          \/ Rotate(i)
    \/ \E i \in Inst, k \in Ticks :
          \/ ChildExit(i, k)
          \/ PipesClose(i, k)
          \/ WaiterDone(i, k)
          \/ WaiterFail(i, k)

Spec == Init /\ [][Next]_vars


\* the operator starts the first instance only
InitOne ==
    /\ today = 1
    /\ dir_exists = FALSE
    /\ lock_exists = FALSE
    /\ lock_holder = NoHolder
    /\ files = [f \in FileNames |-> NoFile]
    /\ proc = [i \in Inst |-> IF i = 1 THEN BlankProc
                              ELSE [BlankProc EXCEPT !.pc = "absent"]]
    /\ log = <<>>

SpecOne == InitOne /\ [][Next]_vars

(* --------------------------------------------------------------- fairness *)
\* the steps of the main thread of instance i
MainThread(i) ==
    \/ EnsureDataDir(i) \/ AcquireLock(i) \/ EnterLoop(i)
    \/ TickStart(i) \/ Recv(i) \/ RecvTimeout(i) \/ Kill(i)
    \/ WriteBegin(i) \/ WriteOpen(i) \/ WriteRecord(i)
    \/ AfterTick(i) \/ Sleep(i) \/ ThreadSleep(i) \/ Rotate(i)

\* threads that can run do run: the main thread takes its next step (a
\* deadline or a sleep that is running out does run out), and a waiter thread
\* returns from wait_with_output once its child has ended.  Nothing makes a
\* child end, the operator press Ctrl-C or start an instance, or a wait fail.
Fairness ==
    \A i \in Inst :
        /\ WF_vars(MainThread(i))
        /\ \A k \in Ticks : WF_vars(WaiterDone(i, k))

FairSpecOne == SpecOne /\ Fairness

(* ------------------------------------------------------- claims: vocabulary *)
\* where a process is inside a tick, in the Runner, and inside write_*_record
TickPcs == {"recv", "kill", "write", "w_open", "w_rec"}
RunnerPcs == {"recv", "kill"}
WritePcs == {"write", "w_open", "w_rec"}

InLoop(i) == proc[i].pc \in LoopPcs
Exited(i) == proc[i].pc = "exited"

\* the appends of instance i so far
AppendsBy(i) == {n \in DOMAIN log : log[n].inst = i}

(* ----------------------------------------------------------------------- *)
(* C1: at most one instance holds the Instance Lock and is inside the      *)
(* scheduler loop at any moment; an acquire attempt returns at once, and   *)
(* it succeeds exactly when no other instance holds the lock: the winner   *)
(* enters the loop, the loser exits with the lock failure, without waiting *)
(* for the holder.                                                         *)
(* ----------------------------------------------------------------------- *)
C1_AtMostOneHolder ==
    /\ Cardinality({i \in Inst : InLoop(i)}) <= 1
    /\ \A i \in Inst : InLoop(i) => lock_holder = i

C1_AcquireStep(i) ==
    proc[i].pc = "lock" /\ proc'[i].pc # "lock" =>
        \/ /\ lock_holder = NoHolder
           /\ lock_holder' = i
           /\ proc'[i].pc = "enter"
        \/ /\ lock_holder \notin {NoHolder, i}
           /\ lock_holder' = lock_holder
           /\ proc'[i].pc = "exited"
           /\ proc'[i].exit_code = 1
           /\ proc'[i].failure = "failed to acquire lock"

C1_NeverBlocks == \A i \in Inst : proc[i].pc = "lock" => ENABLED AcquireLock(i)

C1_InstanceLock ==
    /\ [](C1_AtMostOneHolder /\ C1_NeverBlocks)
    /\ [][\A i \in Inst : C1_AcquireStep(i)]_vars

\* one instance is in the loop, the other has failed on the lock
C1_Witness ==
    \E i, j \in Inst :
        /\ InLoop(i) /\ lock_holder = i
        /\ Exited(j) /\ proc[j].failure = "failed to acquire lock"

(* ----------------------------------------------------------------------- *)
(* C2: when an instance that holds the lock terminates, by any path, the   *)
(* lock is released: no exited instance holds it, the lock is free         *)
(* whenever no instance is in the loop, and an acquire attempt made then   *)
(* succeeds.                                                               *)
(* ----------------------------------------------------------------------- *)
C2_NoDeadHolder ==
    /\ \A i \in Inst : Exited(i) => lock_holder # i
    /\ (\A i \in Inst : ~InLoop(i)) => lock_holder = NoHolder

C2_AcquireAfterExit(j) ==
    (proc[j].pc = "lock" /\ proc'[j].pc # "lock" /\ \A i \in Inst : ~InLoop(i))
        => proc'[j].pc = "enter" /\ lock_holder' = j

C2_LockReleasedOnExit ==
    /\ []C2_NoDeadHolder
    /\ [][\A j \in Inst : C2_AcquireAfterExit(j)]_vars

\* an instance died of a persistence failure after its tick, and the other
\* instance holds the lock now
C2_Witness ==
    \E i, j \in Inst :
        /\ Exited(i) /\ proc[i].exit_code = 1 /\ proc[i].failure \in {"open", "write"}
        /\ InLoop(j) /\ lock_holder = j


(* ----------------------------------------------------------------------- *)
(* C3: a tick whose write succeeds appends exactly one record to the file  *)
(* of the tick, with the timestamp of the tick: the trimmed stdout and the *)
(* exit code of a command that ran, "error: <e>" and -1 for any Runner     *)
(* failure (spawn, wait, timeout, lost waiter).  A Runner failure never    *)
(* leaves the loop: from the Runner the process always goes on to the      *)
(* write, and only a failed write makes run return Err after a tick has    *)
(* started.                                                                *)
(* ----------------------------------------------------------------------- *)
\* what the three ways a child ends, and the four Runner failures, look like
\* in a record
C3_OkRecords ==
    { [value |-> <<"h", "i">>, code |-> <<"0">>],
      [value |-> <<>>, code |-> <<"1">>],
      [value |-> <<>>, code |-> <<"-", "1">>] }

C3_ErrRecords ==
    { [value |-> <<"error: ", e>>, code |-> <<"-", "1">>] : e \in RunnerErrors }

C3_WriteStep(i) ==
    proc[i].pc = "w_rec" /\ proc'[i].pc = "after" =>
        LET f == proc[i].file_path
            old == files[f].lines
            new == files'[f].lines
            last == new[Len(new)]
            r == [value |-> last.value, code |-> last.code]
        IN  /\ Len(new) = Len(old) + 1
            /\ SubSeq(new, 1, Len(old)) = old
            /\ \A g \in FileNames \ {f} : files'[g] = files[g]
            /\ last.kind \in {"row", "json"}
            /\ last.ts = proc[i].timestamp
            /\ IF proc[i].result.ok
               THEN r \in C3_OkRecords /\ r.value = proc[i].result.out
               ELSE r \in C3_ErrRecords /\ r.value[2] = proc[i].result.out[1]

C3_RunnerStep(i) ==
    proc[i].pc \in RunnerPcs \cup {"tick"} /\ proc'[i].pc # proc[i].pc =>
        proc'[i].pc \in RunnerPcs \cup {"write"}

C3_OneRecordPerTick ==
    \A i \in Inst :
        /\ Cardinality(AppendsBy(i)) =
               proc[i].ticks
               - (IF proc[i].pc \in TickPcs THEN 1 ELSE 0)
               - (IF Exited(i) /\ proc[i].failure \in {"open", "write"} THEN 1 ELSE 0)
        /\ Exited(i) /\ proc[i].ticks > 0 /\ proc[i].exit_code = 1
               => proc[i].failure \in {"open", "write"}

C3_FailuresAreRecorded ==
    /\ []C3_OneRecordPerTick
    /\ [][\A i \in Inst : C3_WriteStep(i) /\ C3_RunnerStep(i)]_vars

\* a timeout has been recorded with -1, and the loop goes on
C3_Witness ==
    \E i \in Inst, f \in FileNames :
        /\ proc[i].pc = "sleep"
        /\ \E n \in DOMAIN files[f].lines :
              /\ files[f].lines[n].value = <<"error: ", ErrTimeout>>
              /\ files[f].lines[n].code = <<"-", "1">>

(* ----------------------------------------------------------------------- *)
(* C4 as claimed: once run_shell_command has returned the Timeout failure, *)
(* a kill signal has been sent to the child and the child is not running.  *)
(* ----------------------------------------------------------------------- *)
TimedOut(i) == proc[i].pc \in WritePcs /\ proc[i].result = ErrResult(ErrTimeout)

C4_ChildGoneAfterTimeout ==
    \A i \in Inst : TimedOut(i) =>
        /\ proc[i].kill_sent \in {"killed", "already_dead"}
        /\ proc[i].child[proc[i].tick_no] # "running"

(* ----------------------------------------------------------------------- *)
(* C4 amended: when the deadline expires with no result, the call returns  *)
(* the Timeout failure without waiting for the child, after one            *)
(* `kill -9 <pid>` whose failure is ignored; if that command ran, the      *)
(* child is not running once the call has returned.                        *)
(* ----------------------------------------------------------------------- *)
C4_AfterTimeout ==
    \A i \in Inst :
        /\ TimedOut(i) =>
              /\ timeout_of(proc[i].opts).some
              /\ proc[i].kill_sent # None
              /\ proc[i].kill_sent # "not_run" => proc[i].child[proc[i].tick_no] # "running"
        /\ proc[i].pc = "kill" => ENABLED Kill(i)

C4_TimeoutStep(i) ==
    /\ proc[i].pc = "kill" /\ proc'[i].pc # "kill" =>
          proc'[i].pc = "write" /\ proc'[i].result = ErrResult(ErrTimeout)
    /\ proc'[i].pc = "kill" /\ proc[i].pc # "kill" =>
          proc[i].pc = "recv" /\ proc[i].chan.msg = "empty"

C4_TimeoutKillsBestEffort ==
    /\ []C4_AfterTimeout
    /\ [][\A i \in Inst : C4_TimeoutStep(i)]_vars

\* the call has returned Timeout and its kill has ended the child, which
\* the waiter thread has yet to reap
C4_Witness ==
    \E i \in Inst :
        /\ TimedOut(i)
        /\ proc[i].kill_sent = "killed"
        /\ proc[i].child[proc[i].tick_no] = "killed"
        /\ proc[i].waiter[proc[i].tick_no] = "waiting"

(* ----------------------------------------------------------------------- *)
(* C5: with no interval configured the loop starts one tick and no second  *)
(* one; once the record of that tick is written the process ends with      *)
(* status 0 whatever the shutdown flag says, having appended exactly one   *)
(* record, and the lock file and the data file of the rotation date exist. *)
(* ----------------------------------------------------------------------- *)
RunOnce(i) == InLoop(i) /\ ~interval_of(proc[i].opts).some

C5_OneTick ==
    \A i \in Inst : RunOnce(i) =>
        /\ proc[i].ticks <= 1
        /\ proc[i].pc \notin {"sleep", "sleeping", "rotate"}
        /\ proc[i].pc = "tick" => proc[i].ticks = 0

C5_Finish(i) ==
    RunOnce(i) /\ proc[i].pc = "after" /\ proc'[i].pc # "after" =>
        /\ proc'[i].pc = "exited"
        /\ proc'[i].exit_code = 0
        /\ proc[i].ticks = 1
        /\ Cardinality(AppendsBy(i)) = 1
        /\ lock_exists' /\ dir_exists'
        /\ files'[record_file_path(proc[i].current_date, fmt_of(proc[i].opts))].exists
        /\ Len(files'[record_file_path(proc[i].current_date, fmt_of(proc[i].opts))].lines) >= 1

C5_RunOnce ==
    /\ []C5_OneTick
    /\ [][\A i \in Inst : C5_Finish(i)]_vars

\* the one record is written and the shutdown flag is set
C5_Witness ==
    \E i \in Inst :
        /\ RunOnce(i) /\ proc[i].pc = "after"
        /\ ~proc[i].running
        /\ Cardinality(AppendsBy(i)) = 1


(* ----------------------------------------------------------------------- *)
(* C6: a setup failure (bad interval, bad timeout, bad format, directory   *)
(* creation, lock contention) ends the process with status 1 before the    *)
(* first tick: the instance has run no command and written no record, the  *)
(* failing step leaves every data file as it was, and a configuration      *)
(* failure leaves the data directory and the lock file as they were.  No   *)
(* instance gets past the checks with a rejected command line.             *)
(* ----------------------------------------------------------------------- *)
ConfigFailures == {"invalid interval", "invalid timeout", "format must be 'csv' or 'jsonl'"}
SetupFailures == ConfigFailures \cup {"create_dir_all", "failed to acquire lock"}

\* the command lines the program is to accept
Accepted(o) ==
    /\ o.every \in {None, "150ms"}
    /\ o.timeout \in {None, "1s"}
    /\ o.format \in {"csv", "JSONL"}

C6_State ==
    \A i \in Inst :
        /\ proc[i].pc \in {"ensure_dir", "lock"} \cup LoopPcs => Accepted(proc[i].opts)
        /\ proc[i].pc \in {"new", "ensure_dir", "lock", "enter"} =>
              /\ proc[i].ticks = 0
              /\ \A k \in Ticks : proc[i].child[k] = "none"
        /\ Exited(i) /\ proc[i].failure \in SetupFailures =>
              /\ proc[i].exit_code = 1
              /\ proc[i].ticks = 0
              /\ AppendsBy(i) = {}

C6_Step(i) ==
    proc[i].pc # "exited" /\ proc'[i].pc = "exited" /\ proc'[i].failure \in SetupFailures =>
        /\ proc[i].pc \in {"new", "ensure_dir", "lock"}
        /\ UNCHANGED <<files, log>>
        /\ proc'[i].failure \in ConfigFailures => UNCHANGED <<dir_exists, lock_exists>>

C6_SetupFailures ==
    /\ []C6_State
    /\ [][\A i \in Inst : C6_Step(i)]_vars

\* an instance was rejected for its configuration and nothing exists on disk
C6_Witness ==
    \E i \in Inst :
        /\ Exited(i) /\ proc[i].failure \in ConfigFailures /\ proc[i].exit_code = 1
        /\ ~dir_exists /\ ~lock_exists

(* ----------------------------------------------------------------------- *)
(* C7: a csv file that n >= 1 write_csv_record calls have written, the     *)
(* first of which created it, is one header line followed by n data lines  *)
(* in call order.                                                          *)
(* ----------------------------------------------------------------------- *)
CsvFiles == {f \in FileNames : f[2] = "csv"}

\* the write_csv_record calls that have appended to f
CallsOn(f) == {n \in DOMAIN log : log[n].file = f}

C7_HeaderThenRows ==
    \A f \in CsvFiles :
        LET L == files[f].lines
            n == Cardinality(CallsOn(f))
        IN  n >= 1 =>
              /\ Len(L) = n + 1
              /\ L[1].kind = "header"
              /\ \A m \in 2..Len(L) : L[m].kind = "row"

(* ----------------------------------------------------------------------- *)
(* C8: the record of a tick goes to the file named after the stored        *)
(* rotation date and to no other file; when the loop goes from the sleep   *)
(* to the next tick the stored date is the calendar date of that moment,   *)
(* so a date change during the sleep sends the next record to the new      *)
(* file; the stored date changes at that point only (and is first set      *)
(* before the first tick), never inside a tick.                            *)
(* ----------------------------------------------------------------------- *)
C8_PathOfTick ==
    \A i \in Inst : proc[i].pc \in TickPcs =>
        proc[i].file_path = record_file_path(proc[i].current_date, fmt_of(proc[i].opts))

C8_Step(i) ==
    /\ proc[i].pc = "w_rec" /\ proc'[i].pc = "after" =>
          LET f == <<proc[i].current_date, Ext(fmt_of(proc[i].opts))>> IN
          /\ Len(files'[f].lines) = Len(files[f].lines) + 1
          /\ \A g \in FileNames \ {f} : files'[g] = files[g]
    /\ proc[i].pc = "rotate" /\ proc'[i].pc = "tick" => proc'[i].current_date = today
    /\ proc'[i].pc # "exited" /\ proc'[i].current_date # proc[i].current_date =>
          proc[i].pc \in {"enter", "rotate"}

C8_Rotation ==
    /\ []C8_PathOfTick
    /\ [][\A i \in Inst : C8_Step(i)]_vars

\* one instance has written its first record to the file of date 1 and its
\* second record to the file of date 2
C8_Witness ==
    \E a, b \in DOMAIN log :
        /\ a < b /\ log[a].inst = log[b].inst
        /\ log[a].file[1] = 1 /\ log[b].file[1] = 2
        /\ Len(files[log[a].file].lines) = 1 /\ Len(files[log[b].file].lines) = 1

(* ----------------------------------------------------------------------- *)
(* C9: at most one tick is in progress at any time, in one instance and in *)
(* the job; a tick starts only when no tick is in progress; the records    *)
(* are appended in the order in which the ticks started, each at the end   *)
(* of its file; and no two instances are ever inside a write together.     *)
(* ----------------------------------------------------------------------- *)
C9_State ==
    /\ Cardinality({i \in Inst : proc[i].pc \in TickPcs}) <= 1
    /\ \A i \in Inst : proc[i].pc \in TickPcs =>
          /\ proc[i].tick_no = TicksStarted
          /\ \A a \in DOMAIN log : log[a].tick < proc[i].tick_no
    /\ \A a, b \in DOMAIN log : a < b =>
          /\ log[a].tick < log[b].tick
          /\ log[a].file = log[b].file => log[a].pos < log[b].pos
    /\ \A f \in FileNames : Len(files[f].lines) = Cardinality(CallsOn(f))

C9_Step(i) ==
    proc[i].pc = "tick" /\ proc'[i].pc \in TickPcs =>
        \A j \in Inst : proc[j].pc \notin TickPcs

C9_OneWriter ==
    /\ []C9_State
    /\ [][\A i \in Inst : C9_Step(i)]_vars

\* both instances have appended a record to the same file, one after the other
C9_Witness ==
    /\ Len(log) = 2
    /\ log[1].inst # log[2].inst
    /\ log[1].file = log[2].file
    /\ log[1].pos = 1 /\ log[2].pos = 2

(* ----------------------------------------------------------------------- *)
(* C10: a failed step of the write of a record (open, or write and flush), *)
(* of a command that ran or of a Runner failure alike, ends the process    *)
(* with status 1: it appends nothing, the loop never reaches the end of    *)
(* the tick without the record, and an exited process starts no tick.      *)
(* ----------------------------------------------------------------------- *)
C10_Step(i) ==
    /\ proc[i].pc = "w_open" /\ proc'[i].pc # "w_open" =>
          \/ proc'[i].pc = "w_rec"
          \/ /\ proc'[i].pc = "exited" /\ proc'[i].exit_code = 1
             /\ proc'[i].failure = "open"
             /\ UNCHANGED <<files, log>>
    /\ proc[i].pc = "w_rec" /\ proc'[i].pc # "w_rec" =>
          \/ proc'[i].pc = "after" /\ Len(log') = Len(log) + 1
          \/ /\ proc'[i].pc = "exited" /\ proc'[i].exit_code = 1
             /\ proc'[i].failure = "write"
             /\ UNCHANGED <<files, log>>
    /\ proc[i].pc = "exited" => proc'[i] = proc[i]

C10_State ==
    \A i \in Inst : Exited(i) /\ proc[i].failure \in {"open", "write"} =>
        /\ proc[i].exit_code = 1
        /\ proc[i].ticks >= 1
        /\ Cardinality(AppendsBy(i)) = proc[i].ticks - 1

C10_PersistenceFailure ==
    /\ []C10_State
    /\ [][\A i \in Inst : C10_Step(i)]_vars

\* the write of the record of the second tick failed
C10_Witness ==
    \E i \in Inst :
        /\ Exited(i) /\ proc[i].failure = "write" /\ proc[i].exit_code = 1
        /\ proc[i].ticks = 2
        /\ Cardinality(AppendsBy(i)) = 1

(* ------------------------------------------------ claims: the shutdown flag *)
\* instance i runs the loop with an interval
IntervalMode(i) == InLoop(i) /\ interval_of(proc[i].opts).some

\* the Ctrl-C handler has run in instance i
Stopping(i) == InLoop(i) /\ ~proc[i].running

\* the ticks of instance i whose command started after the handler ran
LateTicks(i) == proc[i].ticks - proc[i].stop_at

(* ----------------------------------------------------------------------- *)
(* C11 as claimed: in interval mode, once the shutdown flag has been set   *)
(* no new tick is started: the number of ticks whose command starts after  *)
(* the flag was set is zero.                                               *)
(* ----------------------------------------------------------------------- *)
C11_NoTickAfterFlag ==
    \A i \in Inst : IntervalMode(i) /\ Stopping(i) => LateTicks(i) = 0

(* ----------------------------------------------------------------------- *)
(* C11 amended: in interval mode the flag is checked after each tick,      *)
(* before every sleep chunk and once after the sleep, and a check that     *)
(* finds it set ends the loop with status 0 without another tick.  The     *)
(* flag is not read between the check after the sleep (or the entry to     *)
(* the loop) and the start of the tick that follows, so at most one tick   *)
(* starts after the flag was set; the loop ends with status 0 after that   *)
(* tick, unless the write of its record fails.  The flag is never unset.   *)
(* ----------------------------------------------------------------------- *)
C11_State ==
    \A i \in Inst : IntervalMode(i) /\ Stopping(i) =>
        /\ LateTicks(i) \in {0, 1}
        /\ LateTicks(i) = 1 => proc[i].pc \in TickPcs \cup {"after"}

C11_Step(i) ==
    /\ IntervalMode(i) /\ Stopping(i) =>
          /\ proc'[i].pc # "exited" => ~proc'[i].running
          /\ proc[i].pc = "after" => proc'[i].pc \in {"after", "exited"}
          /\ proc[i].pc = "sleep" => proc'[i].pc \in {"sleep", "rotate"}
          /\ proc[i].pc = "sleeping" => proc'[i].pc \in {"sleeping", "sleep"}
          /\ proc[i].pc = "rotate" => proc'[i].pc \in {"rotate", "exited"}
          /\ proc'[i].pc = "exited" =>
                \/ proc'[i].exit_code = 0 /\ proc[i].pc \in {"after", "rotate"}
                \/ proc'[i].exit_code = 1 /\ proc'[i].failure \in {"open", "write"}
    \* a tick starts from the top of the loop only, which is reached from the
    \* entry to the loop or past a check that found the flag unset
    /\ proc'[i].ticks > proc[i].ticks => proc[i].pc = "tick"
    /\ proc'[i].pc = "tick" /\ proc[i].pc # "tick" =>
          \/ proc[i].pc = "enter"
          \/ proc[i].pc = "rotate" /\ proc[i].running

C11_NoTickAfterCheck ==
    /\ []C11_State
    /\ [][\A i \in Inst : C11_Step(i)]_vars

\* the flag was set after the check that follows the first sleep, the second
\* tick has started all the same and its record is written
C11_Witness ==
    \E i \in Inst :
        /\ IntervalMode(i) /\ Stopping(i)
        /\ proc[i].stop_at = 1 /\ proc[i].ticks = 2
        /\ proc[i].pc = "after"

(* ----------------------------------------------------------------------- *)
(* C12: in interval mode the process leaves the loop only with the         *)
(* shutdown flag set (status 0) or on a failed write of a record (status   *)
(* 1).  With the flag unset, the end of a tick, whatever the command did   *)
(* (exit code, Runner failure, timeout), leads to the sleep, the sleep     *)
(* ends only when the interval has elapsed, and the check after the sleep  *)
(* leads to the top of the loop; and the loop does get there: after each   *)
(* tick another tick starts, unless the flag is set meanwhile.             *)
(* ----------------------------------------------------------------------- *)
C12_Step(i) ==
    /\ IntervalMode(i) /\ proc'[i].pc = "exited" =>
          \/ ~proc[i].running /\ proc'[i].exit_code = 0
          \/ /\ proc[i].pc \in {"w_open", "w_rec"}
             /\ proc'[i].exit_code = 1 /\ proc'[i].failure \in {"open", "write"}
    /\ IntervalMode(i) /\ proc[i].running /\ proc'[i].pc # proc[i].pc =>
          /\ proc[i].pc = "after" => proc'[i].pc = "sleep"
          /\ proc[i].pc = "sleep" =>
                \/ proc'[i].pc = "sleeping"
                \/ /\ proc'[i].pc = "rotate"
                   /\ proc[i].elapsed >= interval_of(proc[i].opts).ms
          /\ proc[i].pc = "sleeping" => proc'[i].pc = "sleep"
          /\ proc[i].pc = "rotate" => proc'[i].pc = "tick"

C12_NextTick ==
    \A i \in Inst : \A n \in 1..(MaxTicks - 1) :
        (IntervalMode(i) /\ proc[i].pc = "after" /\ proc[i].ticks = n)
            ~> (proc[i].ticks > n \/ Stopping(i) \/ Exited(i))

C12_OnlyTheFlagStops ==
    /\ [][\A i \in Inst : C12_Step(i)]_vars
    /\ C12_NextTick

\* two ticks in a row have failed (both records carry -1 and an error), the
\* flag is unset and the loop is in its second sleep
C12_Witness ==
    \E i \in Inst :
        /\ IntervalMode(i) /\ proc[i].running /\ proc[i].pc = "sleeping"
        /\ proc[i].ticks = 2 /\ Len(log) = 2
        /\ \A n \in DOMAIN log :
              LET line == files[log[n].file].lines[log[n].pos] IN
              /\ log[n].inst = i
              /\ line.code = <<"-", "1">>
              /\ Len(line.value) = 2 /\ line.value[1] = "error: "

(* ----------------------------------------------------------------------- *)
(* C13: setting the shutdown flag changes nothing but the flag: it does    *)
(* not touch the child, the waiter, the channel or the position of the     *)
(* main thread.  A child is killed by this program only in the Timeout arm *)
(* of a call that has a deadline.  A tick in progress when the flag is set *)
(* goes on to its write and, the write succeeding, appends its record; the *)
(* process ends with status 0 only after the tick.  So, the flag being set *)
(* during a call, the process does terminate if a deadline is configured   *)
(* or the command has ended (the child has exited and its output pipes     *)
(* are closed); with no deadline and a child that is still running (and a  *)
(* waiter still waiting) the main thread has no step.                      *)
(* ----------------------------------------------------------------------- *)
\* the Runner call of instance i is blocked: no deadline, no message, the
\* child running and the waiter waiting on it
Blocked(i) ==
    /\ proc[i].pc = "recv"
    /\ ~timeout_of(proc[i].opts).some
    /\ proc[i].chan.msg = "empty"
    /\ proc[i].child[proc[i].tick_no] = "running"
    /\ proc[i].waiter[proc[i].tick_no] = "waiting"

C13_State ==
    \A i \in Inst :
        /\ proc[i].pc = "kill" \/ proc[i].kill_sent # None => timeout_of(proc[i].opts).some
        /\ Blocked(i) => ~ENABLED MainThread(i)

C13_Step(i) ==
    \* the handler
    /\ proc[i].running /\ ~proc'[i].running =>
          proc' = [proc EXCEPT ![i].running = FALSE, ![i].stop_at = proc[i].ticks]
    \* the only kill
    /\ \A k \in Ticks : proc[i].child[k] = "running" /\ proc'[i].child[k] = "killed" =>
          /\ proc[i].pc = "kill" /\ k = proc[i].tick_no
          /\ timeout_of(proc[i].opts).some
    \* the tick in progress completes
    /\ Stopping(i) /\ proc[i].pc \in TickPcs /\ proc'[i].pc # proc[i].pc =>
          \/ proc'[i].pc \in TickPcs /\ proc'[i].pc # "recv" /\ UNCHANGED log
          \/ /\ proc[i].pc = "w_rec" /\ proc'[i].pc = "after"
             /\ Len(log') = Len(log) + 1
             /\ log'[Len(log')].inst = i /\ log'[Len(log')].tick = proc[i].tick_no
          \/ /\ proc[i].pc \in {"w_open", "w_rec"} /\ proc'[i].pc = "exited"
             /\ proc'[i].exit_code = 1 /\ proc'[i].failure \in {"open", "write"}
    /\ proc[i].pc = "recv" /\ proc'[i].pc = "kill" => proc[i].chan.msg = "empty"
    /\ proc[i].pc = "recv" /\ proc'[i].pc = "write" => proc[i].chan.msg # "empty"

C13_Terminates ==
    \A i \in Inst :
        ( /\ Stopping(i) /\ proc[i].pc \in RunnerPcs
          /\ \/ timeout_of(proc[i].opts).some
             \/ /\ proc[i].child[proc[i].tick_no] # "running"
                /\ ~proc[i].pipe_open[proc[i].tick_no] )
            ~> Exited(i)

C14_Min(a, b) == IF a < b THEN a ELSE b

C14_State ==
    \A i \in Inst :
        LET dur == interval_of(proc[i].opts).ms IN
        /\ proc[i].pc \in {"sleep", "sleeping"} =>
              /\ interval_of(proc[i].opts).some
              /\ proc[i].elapsed >= 0 /\ proc[i].elapsed <= dur
        /\ proc[i].pc = "sleeping" =>
              /\ proc[i].sleep_dur > 0
              /\ proc[i].sleep_dur = C14_Min(SleepChunkMs, dur - proc[i].elapsed)

C14_Step(i) ==
    LET dur == interval_of(proc[i].opts).ms IN
    /\ proc[i].pc = "sleep" /\ proc'[i].pc = "sleeping" =>
          proc[i].running /\ proc[i].elapsed < dur
    /\ proc[i].pc = "sleep" /\ proc'[i].pc = "rotate" =>
          ~proc[i].running \/ proc[i].elapsed >= dur
    /\ proc[i].pc = "sleep" /\ proc'[i].pc # "sleep" =>
          proc'[i].pc \in {"sleeping", "rotate"}
    /\ proc[i].pc = "sleeping" /\ proc'[i].pc # "sleeping" =>
          /\ proc'[i].pc = "sleep"
          /\ proc'[i].elapsed >= proc[i].elapsed + proc[i].sleep_dur
    /\ proc[i].pc = "rotate" /\ ~proc[i].running /\ proc'[i].pc # "rotate" =>
          proc'[i].pc = "exited" /\ proc'[i].exit_code = 0

C14_StopsInTheSleep ==
    \A i \in Inst :
        (Stopping(i) /\ proc[i].pc \in {"sleep", "sleeping"}) ~> Exited(i)

C14_SleepInChunks ==
    /\ []C14_State
    /\ [][\A i \in Inst : C14_Step(i)]_vars
    /\ C14_StopsInTheSleep

\* the flag is set during the second chunk of the sleep, which is the 50 ms
\* that remain of an interval of 150 ms
C14_Witness ==
    \E i \in Inst :
        /\ Stopping(i) /\ proc[i].pc = "sleeping"
        /\ proc[i].elapsed = SleepChunkMs
        /\ proc[i].sleep_dur = interval_of(proc[i].opts).ms - SleepChunkMs
        /\ proc[i].sleep_dur < SleepChunkMs

(* ----------------------------------------------------------------------- *)
(* C15: a call of run_shell_command returns once, with one outcome.  If    *)
(* the caller finds a message on the channel it returns that message (the  *)
(* result of the waiter thread, or the Execution Failure of a lost         *)
(* waiter) and no kill is issued; if the deadline expires on an empty      *)
(* channel it returns Timeout, and what the waiter thread sends from then  *)
(* on is dropped: the channel a call reads only ever holds the message of  *)
(* the waiter of that call, the outcome does not change between the return *)
(* and the write, and the record written is the record of that outcome.    *)
(* ----------------------------------------------------------------------- *)
C15_State ==
    \A i \in Inst :
        /\ proc[i].pc \notin RunnerPcs => proc[i].chan = EmptyChan
        /\ proc[i].pc \in RunnerPcs /\ proc[i].chan.msg # "empty" =>
              proc[i].waiter[proc[i].tick_no] = "done"
        /\ proc[i].pc \in WritePcs /\ proc[i].result # ErrResult(ErrTimeout) =>
              proc[i].kill_sent = None

C15_Step(i) ==
    LET p == proc[i]
        k == p.tick_no
    IN  \* the result arrives first
        /\ p.pc = "recv" /\ proc'[i].pc = "write" =>
              /\ p.chan.msg # "empty"
              /\ proc'[i].result = IF p.chan.msg = "full" THEN p.chan.res
                                   ELSE ErrResult(ErrExec)
              /\ proc'[i].kill_sent = None
              /\ proc'[i].child = p.child
        \* the deadline expires first
        /\ p.pc = "recv" /\ proc'[i].pc = "kill" => p.chan.msg = "empty"
        /\ p.pc = "kill" /\ proc'[i].pc # "kill" =>
              proc'[i].pc = "write" /\ proc'[i].result = ErrResult(ErrTimeout)
        \* one return per call, and one outcome from the return to the write
        /\ p.pc \in RunnerPcs /\ proc'[i].pc # p.pc => proc'[i].pc \in {"kill", "write"}
        /\ p.pc \in WritePcs /\ proc'[i].pc \in WritePcs => proc'[i].result = p.result
        /\ p.pc = "w_rec" /\ proc'[i].pc = "after" =>
              LET line == files'[p.file_path].lines[Len(files'[p.file_path].lines)] IN
              /\ line.value = OutcomeOf(p.result).value
              /\ line.code = IntToString(OutcomeOf(p.result).code)
        \* a waiter that ends after its call has returned changes nothing in
        \* the main thread
        /\ \A j \in Ticks :
              (p.waiter[j] = "waiting" /\ proc'[i].waiter[j] = "done"
                 /\ ~(j = k /\ p.pc \in RunnerPcs)) =>
                  /\ proc'[i].chan = p.chan
                  /\ proc'[i].result = p.result
                  /\ proc'[i].pc = p.pc

C15_OneOutcome ==
    /\ []C15_State
    /\ [][\A i \in Inst : C15_Step(i)]_vars

\* the call of the first tick has returned Timeout and the waiter thread has
\* reaped the child since; the second tick's call is waiting on its own
\* channel, which is empty
C15_Witness ==
    \E i \in Inst :
        /\ proc[i].ticks = 2 /\ proc[i].pc = "recv"
        /\ proc[i].chan = EmptyChan
        /\ proc[i].waiter[proc[i].tick_no] = "waiting"
        /\ \E k \in Ticks : k # proc[i].tick_no /\ proc[i].waiter[k] = "done"
                            /\ proc[i].child[k] = "reaped"
        /\ Len(log) = 1
        /\ files[log[1].file].lines[1].value = <<"error: ", ErrTimeout>>

(* ------------------------------------------------- claims: child processes *)
\* the child of call k of instance i has ended and nothing has waited on it
Zombie(i, k) == proc[i].child[k] \in {"exited", "killed"}

(* ----------------------------------------------------------------------- *)
(* C16: a call that spawns creates one child, and that child is            *)
(* eventually reaped: a child that has ended, killed on deadline expiry or *)
(* not, does not remain a zombie for ever; the waiter thread reaps it, or  *)
(* the operating system once the process has exited.                       *)
(* ----------------------------------------------------------------------- *)
C16_ChildReaped ==
    \A i \in Inst : \A k \in Ticks :
        Zombie(i, k) ~> (proc[i].child[k] = "reaped" \/ Exited(i))

(* ----------------------------------------------------------------------- *)
(* C17: a call without a deadline never takes the Timeout arm: it returns  *)
(* no Timeout failure and runs no kill, and no child of the instance is    *)
(* killed by it.  The call returns only when the channel holds a message.  *)
(* What it returns as a result is what the waiter thread made of a child   *)
(* that has ended and has been waited on: the stdout without the white     *)
(* space around it and the exit code, -1 for a child that a signal ended.  *)
(* (A failure of the wait itself is returned as an Execution Failure.)     *)
(* ----------------------------------------------------------------------- *)
NoDeadline(i) == InLoop(i) /\ ~timeout_of(proc[i].opts).some

\* the results of the three ways a child may end: "hi\n" and exit 0, " \n"
\* and exit 1, nothing and a signal
C17_Results ==
    { [ok |-> TRUE, out |-> <<"h", "i">>, code |-> 0],
      [ok |-> TRUE, out |-> <<>>, code |-> 1],
      [ok |-> TRUE, out |-> <<>>, code |-> -1] }

C17_State ==
    \A i \in Inst : NoDeadline(i) =>
        /\ proc[i].pc # "kill"
        /\ proc[i].kill_sent = None
        /\ proc[i].result # ErrResult(ErrTimeout)
        /\ \A k \in Ticks : proc[i].child[k] # "killed"

C17_Step(i) ==
    LET p == proc[i]
        k == p.tick_no
    IN  /\ NoDeadline(i) /\ p.pc = "recv" /\ proc'[i].pc # "recv" =>
              /\ proc'[i].pc = "write"
              /\ p.chan.msg # "empty"
              /\ p.waiter[k] = "done"
              /\ IF proc'[i].result.ok
                 THEN /\ p.child[k] = "reaped"
                      /\ proc'[i].result \in C17_Results
                 ELSE proc'[i].result \in {ErrResult(ErrWait), ErrResult(ErrExec)}
        \* the message of a waiter that has waited on its child
        /\ NoDeadline(i) /\ p.pc = "recv" /\ p.waiter[k] = "waiting"
             /\ proc'[i].child[k] = "reaped" =>
              /\ p.child[k] = "exited" /\ ~p.pipe_open[k]
              /\ proc'[i].chan.msg = "full"
              /\ proc'[i].chan.res \in C17_Results

C17_NoDeadline ==
    /\ []C17_State
    /\ [][\A i \in Inst : C17_Step(i)]_vars

\* a call without a deadline has returned the result of a child that a
\* signal from outside ended
C17_Witness ==
    \E i \in Inst :
        /\ NoDeadline(i) /\ proc[i].pc = "write"
        /\ proc[i].result = [ok |-> TRUE, out |-> <<>>, code |-> FailCode]
        /\ proc[i].child[proc[i].tick_no] = "reaped"

(* ----------------------------------------------------------------------- *)
(* C18: on deadline expiry the kill goes to the child of this call while   *)
(* it is the process's own: in no interleaving of the caller and the       *)
(* waiter thread is `kill -9 <pid>` run after the waiter thread has waited *)
(* on (reaped) the child, when the pid is free or belongs to another       *)
(* process.                                                                *)
(* ----------------------------------------------------------------------- *)
C18_KillNeverAfterReap ==
    \A i \in Inst : proc[i].kill_sent # "reaped_pid"

(* ----------------------------------------------------------------------- *)
(* C19: every record is stored in the file of its own day: the calendar    *)
(* date of the timestamp of every line of <D>.<ext> is D, whenever the     *)
(* date changes relative to the steps of the loop.                         *)
(* ----------------------------------------------------------------------- *)
C19_RecordInFileOfItsDay ==
    \A f \in FileNames : \A n \in DOMAIN files[f].lines :
        files[f].lines[n].ts = f[1]

====
